---- MODULE Spec2Model ----
(***************************************************************************)
(* Model of driver-detection.py: one run of main().                        *)
(*                                                                         *)
(* A text (the captured stdout of a command) is a sequence of lines, a     *)
(* line a sequence of tokens; the token " " stands for a run of blanks.    *)
(* The host (search path, what nvidia-smi and the package managers         *)
(* answer) is fixed for the run; GPU-enumeration commands and lsmod draw   *)
(* their outcome when they are executed.  logging.* calls write to stderr  *)
(* only and are left out.                                                  *)
(***************************************************************************)
EXTENDS Integers, Sequences, FiniteSets, TLC

VARIABLES
    path,               \* commands shutil.which resolves on this host
    answer,             \* host: outcome of nvidia-smi and of each package manager
    pc,                 \* position in main()
    idx,                \* detect_gpus: index of the next command in the loop
    gpus,               \* detect_gpus: gpus dict
    loaded_modules,     \* main: loaded_modules
    nvidia_info,        \* main: nvidia_info, <<>> while unassigned
    intel_info,         \* main: intel_info, <<>> while unassigned
    any_gpu_processed,  \* main: any_gpu_processed
    printed,            \* lines written to stdout, in order
    trace,              \* external commands executed (subprocess.run), in order
    last_run,           \* how the most recent subprocess.run ended
    exit_code           \* -1 while running, then the process exit status

vars == <<path, answer, pc, idx, gpus, loaded_modules, nvidia_info, intel_info,
          any_gpu_processed, printed, trace, last_run, exit_code>>

-----------------------------------------------------------------------------
(* Bounds of the model *)

\* Most lines an lsmod output has (header included).
MaxLines == 3
\* Most package managers installed on one host.
MaxManagers == 2

-----------------------------------------------------------------------------
(* Constant tables *)

REQUIRED_COMMANDS == {"lspci", "lsmod"}

GPU_DETECTION_COMMANDS ==
    << <<"lspci">>, <<"lshw", "-C", "display">>, <<"glxinfo", "-B">> >>

NVIDIA_PROPRIETARY_MODULES == {"nvidia", "nvidia_drm", "nvidia_modeset", "nvidia_uvm"}
NVIDIA_OPEN_MODULES == {"nouveau"}
INTEL_MODULES == {"i915"}

\* dict iteration order of PACKAGE_MANAGERS (insertion order)
PACKAGE_MANAGER_ORDER == <<"dpkg", "rpm", "pacman", "zypper">>

PACKAGE_MANAGERS ==
    [dpkg   |-> <<"dpkg", "-l">>,
     rpm    |-> <<"rpm", "-qa">>,
     pacman |-> <<"pacman", "-Q">>,
     zypper |-> <<"zypper", "se", "-i">>]

\* a regular expression a|b|c is the set of its alternatives
NVIDIA_PACKAGE_PATTERNS ==
    [dpkg   |-> {"nvidia-driver", "nvidia-\\d+"},
     rpm    |-> {"nvidia-driver", "kmod-nvidia", "akmod-nvidia"},
     pacman |-> {"nvidia"},
     zypper |-> {"nvidia"}]

INTEL_PACKAGE_PATTERNS ==
    [dpkg   |-> {"i965-va-driver", "intel-media-va-driver", "xserver-xorg-video-intel"},
     rpm    |-> {"libva-intel-driver", "xorg-x11-drv-intel"},
     pacman |-> {"libva-intel-driver", "xf86-video-intel"},
     zypper |-> {"libva-intel-driver", "xorg-x11-drv-intel"}]

NVIDIA_SMI == <<"nvidia-smi">>
LSMOD == <<"lsmod">>

-----------------------------------------------------------------------------
(* Strings *)

\* str.lower() on the words of the model's vocabulary
str_lower(w) ==
    CASE w = "NVIDIA"       -> "nvidia"
      [] w = "Intel"        -> "intel"
      [] w = "VGA"          -> "vga"
      [] w = "NVIDIA-utils" -> "nvidia-utils"
      [] OTHER              -> w

\* The alternatives of the tables above, and the literals detect_gpus looks
\* for, that occur in word w as a substring (case-sensitively).
Fragments(w) ==
    CASE w = "nvidia"             -> {"nvidia"}
      [] w = "intel"              -> {"intel"}
      [] w = "nvidia-utils"       -> {"nvidia"}
      [] w = "nvidia-driver-535"  -> {"nvidia", "nvidia-driver"}
      [] w = "libva-intel-driver" -> {"intel", "libva-intel-driver"}
      [] OTHER                    -> {}

\* `needle in text`
str_contains(text, needle) ==
    \E i \in DOMAIN text : \E j \in DOMAIN text[i] : needle \in Fragments(text[i][j])

\* text.lower()
text_lower(text) ==
    [i \in DOMAIN text |-> [j \in DOMAIN text[i] |-> str_lower(text[i][j])]]

\* re.search(pattern, text, re.IGNORECASE) is not None
re_search_ignorecase(pattern, text) ==
    \E i \in DOMAIN text : \E j \in DOMAIN text[i] :
        Fragments(str_lower(text[i][j])) \cap pattern # {}

IsBlankLine(line) == \A j \in DOMAIN line : line[j] = " "

RECURSIVE lstrip_line(_)
lstrip_line(line) ==
    IF line = <<>> THEN <<>>
    ELSE IF line[1] = " " THEN lstrip_line(Tail(line)) ELSE line

RECURSIVE rstrip_line(_)
rstrip_line(line) ==
    IF line = <<>> THEN <<>>
    ELSE IF line[Len(line)] = " " THEN rstrip_line(SubSeq(line, 1, Len(line) - 1))
    ELSE line

RECURSIVE drop_leading_blank(_)
drop_leading_blank(text) ==
    IF text = <<>> THEN <<>>
    ELSE IF IsBlankLine(text[1]) THEN drop_leading_blank(Tail(text)) ELSE text

RECURSIVE drop_trailing_blank(_)
drop_trailing_blank(text) ==
    IF text = <<>> THEN <<>>
    ELSE IF IsBlankLine(text[Len(text)])
         THEN drop_trailing_blank(SubSeq(text, 1, Len(text) - 1))
         ELSE text

\* str.strip(): white space and newlines off both ends of the whole text
str_strip(text) ==
    LET t == drop_trailing_blank(drop_leading_blank(text))
    IN  [i \in DOMAIN t |->
            LET l1 == IF i = 1 THEN lstrip_line(t[i]) ELSE t[i]
            IN  IF i = Len(t) THEN rstrip_line(l1) ELSE l1]

\* str.split(): the tokens between runs of white space
str_split(line) == SelectSeq(line, LAMBDA tok : tok # " ")

\* Python's string order on the module names of the model
ModuleRank(m) ==
    CASE m = "i915"           -> 1
      [] m = "nouveau"        -> 2
      [] m = "nvidia"         -> 3
      [] m = "nvidia_drm"     -> 4
      [] m = "nvidia_modeset" -> 5
      [] m = "nvidia_uvm"     -> 6
      [] OTHER                -> 7

\* sorted() with the comparison turned round
RECURSIVE sorted_descending(_)
sorted_descending(S) ==
    IF S = {} THEN <<>>
    ELSE LET m == CHOOSE x \in S : \A y \in S : ModuleRank(x) >= ModuleRank(y)
         IN  <<m>> \o sorted_descending(S \ {m})

RECURSIVE sorted(_)
sorted(S) ==
    IF S = {} THEN <<>>
    ELSE LET m == CHOOSE x \in S : \A y \in S : ModuleRank(x) <= ModuleRank(y)
         IN  <<m>> \o sorted(S \ {m})

\* str.capitalize() on the driver labels print_results can meet
str_capitalize(s) ==
    CASE s = "proprietary NVIDIA"            -> "Proprietary nvidia"
      [] s = "nouveau (open-source)"         -> "Nouveau (open-source)"
      [] s = "proprietary NVIDIA (inactive)" -> "Proprietary nvidia (inactive)"
      [] s = "open-source INTEL"             -> "Open-source intel"
      [] s = "open-source NVIDIA"            -> "Open-source nvidia"
      [] OTHER                               -> s

\* str.upper() on the vendor names
str_upper(s) ==
    CASE s = "nvidia" -> "NVIDIA"
      [] s = "intel"  -> "INTEL"
      [] OTHER        -> s

-----------------------------------------------------------------------------
(* Running a command *)

\* What subprocess.run can do: return (kind "exit") or raise.
Exit(code, stdout) == [kind |-> "exit", returncode |-> code, stdout |-> stdout]
Raises(kind) == [kind |-> kind, returncode |-> -1, stdout |-> <<>>]
FailureOutcomes ==
    {Exit(1, <<>>), Raises("FileNotFoundError"), Raises("TimeoutExpired"), Raises("Exception")}

\* how subprocess.run ended: the exception raised, or the exit status
Status(o) ==
    IF o.kind # "exit" THEN o.kind
    ELSE IF o.returncode = 0 THEN "exit 0" ELSE "exit nonzero"

None == [none |-> TRUE, text |-> <<>>]
Some(text) == [none |-> FALSE, text |-> text]
\* Python truth value of an Optional[str]
Truthy(r) == ~r.none /\ r.text # <<>>

is_command_available(cmd, p) == cmd \in p

run_command(o) ==
    IF o.kind = "exit" /\ o.returncode = 0 THEN Some(str_strip(o.stdout)) ELSE None

check_required_commands(commands, p) ==
    LET missing == {cmd \in commands : ~is_command_available(cmd, p)}
    IN  missing = {}

-----------------------------------------------------------------------------
(* What the host can answer *)

Tools == {"lspci", "lsmod", "lshw", "glxinfo", "nvidia-smi"}
ManagerTools == {PACKAGE_MANAGERS[pm][1] : pm \in DOMAIN PACKAGE_MANAGERS}

\* stdout of a GPU-enumeration command
DetectTexts ==
    { <<>>,
      << <<" ">> >>,
      << <<"VGA">> >>,
      << <<"VGA", " ", "NVIDIA">> >>,
      << <<"VGA", " ", "Intel">> >>,
      << <<"VGA", " ", "Intel">>, <<"VGA", " ", "NVIDIA">> >> }
DetectOutcomes == FailureOutcomes \cup {Exit(0, t) : t \in DetectTexts}

\* stdout of lsmod: empty, or up to MaxLines lines: a first line (the header,
\* an empty line or a line of blanks), then lines that each are a module's
\* line, an empty line or a line of blanks
HostModules == {"nvidia", "nvidia_drm", "nouveau", "i915"}
LsmodFirstLines == { <<>>, <<" ">>, <<"Module", " ", "Size", " ", "Used">> }
LsmodLines ==
    { <<>>, <<" ">> } \cup { <<m, " ", "16384", " ", "0">> : m \in HostModules }
LsmodTexts ==
    {<<>>} \cup
    UNION { { <<first>> \o rest : first \in LsmodFirstLines, rest \in [1..n -> LsmodLines] } :
              n \in 0..(MaxLines - 1) }
LsmodOutcomes == FailureOutcomes \cup {Exit(0, t) : t \in LsmodTexts}

\* stdout of nvidia-smi
SmiOutcomes ==
    { Raises("TimeoutExpired"), Exit(0, <<>>), Exit(0, << <<"NVIDIA-SMI", " ", "535">> >>) }

\* stdout of a package manager's listing
ListingOutcomes ==
    { Exit(1, <<>>),
      Exit(0, << <<"bash">>, <<"NVIDIA-utils">> >>),
      Exit(0, << <<"nvidia-driver-535">>, <<"libva-intel-driver">> >>) }

\* the answer recorded for a tool that is not installed
NotInstalled == Raises("FileNotFoundError")

-----------------------------------------------------------------------------
(* GPU detection and driver checks *)

Ran(cmd, by) == [cmd |-> cmd, by |-> by]

\* One iteration of the loop of detect_gpus on the command's outcome o:
\* the new gpus dict.
detect_update(g, o) ==
    LET output == run_command(o)
    IN  IF Truthy(output)
        THEN LET out_lower == text_lower(output.text)
             IN  [nvidia |-> IF str_contains(out_lower, "nvidia") THEN TRUE ELSE g.nvidia,
                  intel  |-> IF str_contains(out_lower, "intel") THEN TRUE ELSE g.intel]
        ELSE g

\* detect_gpus without its early exit
detect_break_never(g, o) == FALSE

\* the break of detect_gpus: taken only inside `if output := ...`
detect_break(g, o) ==
    Truthy(run_command(o)) /\ detect_update(g, o).nvidia /\ detect_update(g, o).intel

\* get_loaded_kernel_modules on the outcome o of lsmod: the set returned, or
\* raised = TRUE when line.split()[0] raises IndexError
get_loaded_kernel_modules(o) ==
    LET modules_output == run_command(o)
    IN  IF ~Truthy(modules_output)
        THEN [raised |-> FALSE, value |-> {}]
        ELSE LET lines == Tail(modules_output.text)
                 kept  == SelectSeq(lines, LAMBDA line : line # <<>>)
             IN  IF \E i \in DOMAIN kept : str_split(kept[i]) = <<>>
                 THEN [raised |-> TRUE, value |-> {}]
                 ELSE [raised |-> FALSE,
                       value  |-> {str_split(kept[i])[1] : i \in DOMAIN kept}]

\* what one execution of lsmod can lead to
LoadedModuleResults ==
    { [status |-> Status(o), result |-> get_loaded_kernel_modules(o)] : o \in LsmodOutcomes }

\* how the last of the commands in runs ended (they are answered by the host)
LastOf(runs, ans, before) ==
    IF runs = <<>> THEN before ELSE Status(ans[runs[Len(runs)][1]])

\* check_packages whose loop body counts any output as a match
check_one_manager_any_output(pm, patterns, p, ans) ==
    LET cmd == PACKAGE_MANAGERS[pm]
    IN  IF ~is_command_available(cmd[1], p)
        THEN [found_via |-> <<>>, runs |-> <<>>]
        ELSE [found_via |-> IF Truthy(run_command(ans[cmd[1]]))
                            THEN << <<"Found via", pm>> >> ELSE <<>>,
              runs      |-> <<cmd>>]

\* check_packages whose loop body runs a listing again when it gave nothing
check_one_manager_retry(pm, patterns, p, ans) ==
    LET cmd == PACKAGE_MANAGERS[pm]
    IN  IF ~is_command_available(cmd[1], p)
        THEN [found_via |-> <<>>, runs |-> <<>>]
        ELSE LET output == run_command(ans[cmd[1]])
                 hit    == Truthy(output)
                             /\ re_search_ignorecase(patterns[pm], output.text)
             IN  [found_via |-> IF hit THEN << <<"Found via", pm>> >> ELSE <<>>,
                  runs      |-> IF Truthy(output) THEN <<cmd>> ELSE <<cmd, cmd>>]

\* The body of the loop of check_packages for package manager pm: what it
\* appends to found_via, and the listing command it executes (runs)
check_one_manager(pm, patterns, p, ans) ==
    LET cmd == PACKAGE_MANAGERS[pm]
    IN  IF ~is_command_available(cmd[1], p)
        THEN [found_via |-> <<>>, runs |-> <<>>]
        ELSE LET output == run_command(ans[cmd[1]])
                 hit    == Truthy(output)
                             /\ re_search_ignorecase(patterns[pm], output.text)
             IN  [found_via |-> IF hit THEN << <<"Found via", pm>> >> ELSE <<>>,
                  runs      |-> <<cmd>>]

\* check_packages, from the i-th package manager on
RECURSIVE check_packages_from(_, _, _, _)
check_packages_from(i, patterns, p, ans) ==
    IF i > Len(PACKAGE_MANAGER_ORDER)
    THEN [found_via |-> <<>>, runs |-> <<>>]
    ELSE LET one  == check_one_manager(PACKAGE_MANAGER_ORDER[i], patterns, p, ans)
             rest == check_packages_from(i + 1, patterns, p, ans)
         IN  [found_via |-> one.found_via \o rest.found_via,
              runs      |-> one.runs \o rest.runs]

check_packages(patterns, p, ans) == check_packages_from(1, patterns, p, ans)

\* check_nvidia_driver, lines 183-191: the info dict after the module checks
nvidia_module_info(loaded) ==
    LET found_proprietary == NVIDIA_PROPRIETARY_MODULES \cap loaded
        found_nouveau     == NVIDIA_OPEN_MODULES \cap loaded
        info == [installed |-> FALSE, type |-> "None",
                 modules_loaded |-> <<>>, packages |-> <<>>]
    IN  IF found_proprietary # {}
        THEN [info EXCEPT !.installed = TRUE, !.type = "proprietary NVIDIA",
                          !.modules_loaded = sorted(found_proprietary)]
        ELSE IF found_nouveau # {}
        THEN [info EXCEPT !.installed = TRUE, !.type = "nouveau (open-source)",
                          !.modules_loaded = sorted(found_nouveau)]
        ELSE info

\* check_nvidia_driver, lines 194-196: smi is the value of
\* `is_command_available("nvidia-smi") and run_command(["nvidia-smi"])`
nvidia_smi_override(info, smi) ==
    IF smi THEN [info EXCEPT !.installed = TRUE, !.type = "proprietary NVIDIA"]
    ELSE info

\* the package fallback with the label of the active driver
nvidia_package_fallback_active(info, packages) ==
    IF packages # <<>>
    THEN [info EXCEPT !.installed = TRUE, !.type = "proprietary NVIDIA",
                      !.packages = packages]
    ELSE info

\* check_nvidia_driver, lines 200-201: packages is what check_packages returned
nvidia_package_fallback(info, packages) ==
    IF packages # <<>>
    THEN [info EXCEPT !.installed = TRUE, !.type = "proprietary NVIDIA (inactive)",
                      !.packages = packages]
    ELSE info

\* check_nvidia_driver: the info dict, and the commands executed (runs)
check_nvidia_driver(loaded, p, ans) ==
    LET info1   == nvidia_module_info(loaded)
        smi_ran == is_command_available("nvidia-smi", p)
        info2   == nvidia_smi_override(
                      info1, smi_ran /\ Truthy(run_command(ans["nvidia-smi"])))
        pk      == check_packages(NVIDIA_PACKAGE_PATTERNS, p, ans)
    IN  IF ~info2.installed
        THEN [info |-> nvidia_package_fallback(info2, pk.found_via),
              runs |-> (IF smi_ran THEN <<NVIDIA_SMI>> ELSE <<>>) \o pk.runs]
        ELSE [info |-> info2,
              runs |-> IF smi_ran THEN <<NVIDIA_SMI>> ELSE <<>>]

\* check_intel_driver that asks the package managers only as a fallback
check_intel_driver_fallback_only(loaded, p, ans) ==
    LET found_modules == INTEL_MODULES \cap loaded
        info0 == [installed |-> FALSE, modules_loaded |-> <<>>, packages |-> <<>>]
        pk    == check_packages(INTEL_PACKAGE_PATTERNS, p, ans)
    IN  IF found_modules # {}
        THEN [info |-> [info0 EXCEPT !.installed = TRUE,
                                     !.modules_loaded = sorted(found_modules)],
              runs |-> <<>>]
        ELSE [info |-> IF pk.found_via # <<>>
                       THEN [info0 EXCEPT !.installed = TRUE, !.packages = pk.found_via]
                       ELSE info0,
              runs |-> pk.runs]

\* check_intel_driver: the info dict, and the commands executed (runs)
check_intel_driver(loaded, p, ans) ==
    LET found_modules == INTEL_MODULES \cap loaded
        info0 == [installed |-> FALSE, modules_loaded |-> <<>>, packages |-> <<>>]
        info1 == IF found_modules # {}
                 THEN [info0 EXCEPT !.installed = TRUE,
                                    !.modules_loaded = sorted(found_modules)]
                 ELSE info0
        pk    == check_packages(INTEL_PACKAGE_PATTERNS, p, ans)
        info2 == IF pk.found_via # <<>>
                 THEN [info1 EXCEPT !.installed = TRUE, !.packages = pk.found_via]
                 ELSE info1
    IN  [info |-> info2, runs |-> pk.runs]

-----------------------------------------------------------------------------
(* Output *)

Line(kind, vendor, label, items) ==
    [line |-> kind, vendor |-> vendor, label |-> label, items |-> items]

\* print_results: the lines it prints
print_results(gpu_detected, driver_info, gpu_type) ==
    LET gpu_name == str_upper(gpu_type)
        title    == << Line("title", gpu_name, "", <<>>) >>
    IN  IF ~gpu_detected
        THEN title \o << Line("hardware not found", gpu_name, "", <<>>) >>
        ELSE title \o << Line("hardware found", gpu_name, "", <<>>) >> \o
             (IF driver_info.installed
              THEN LET driver_type ==
                          IF "type" \in DOMAIN driver_info
                          THEN driver_info.type
                          ELSE IF gpu_name = "INTEL" THEN "open-source INTEL"
                               ELSE "open-source NVIDIA"
                   IN  << Line("driver detected", gpu_name, str_capitalize(driver_type), <<>>) >>
                       \o (IF driver_info.modules_loaded # <<>>
                           THEN << Line("loaded modules", gpu_name, "",
                                        driver_info.modules_loaded) >>
                           ELSE <<>>)
                       \o (IF driver_info.packages # <<>>
                           THEN << Line("detected packages", gpu_name, "",
                                        driver_info.packages) >>
                           ELSE <<>>)
              ELSE << Line("no active driver", gpu_name, "", <<>>),
                      Line("consider installing", gpu_name, "", <<>>) >>)

Blank == Line("blank", "", "", <<>>)

-----------------------------------------------------------------------------
(* The run *)

Banner == << Line("banner", "", "", <<>>), Line("rule", "", "", <<>>) >>

\* The search paths: any of the tools may be missing, and at most
\* MaxManagers package managers are installed.
HostPaths ==
    {p \in SUBSET (Tools \cup ManagerTools) :
        Cardinality(p \cap ManagerTools) <= MaxManagers}

\* The answers of a host with search path p: every installed tool among
\* nvidia-smi and the package managers has one, fixed for the run.
HostAnswers(p) ==
    { [t \in {"nvidia-smi"} \cup ManagerTools |->
          IF t = "nvidia-smi" THEN s ELSE IF t \in p THEN l[t] ELSE NotInstalled] :
        s \in (IF "nvidia-smi" \in p THEN SmiOutcomes ELSE {NotInstalled}),
        l \in [p \cap ManagerTools -> ListingOutcomes] }

Init ==
    /\ path \in HostPaths
    /\ answer \in HostAnswers(path)
    /\ pc = "main"
    /\ idx = 1
    /\ gpus = [nvidia |-> FALSE, intel |-> FALSE]
    /\ loaded_modules = {}
    /\ nvidia_info = <<>>
    /\ intel_info = <<>>
    /\ any_gpu_processed = FALSE
    /\ printed = <<>>
    /\ trace = <<>>
    /\ last_run = "none"
    /\ exit_code = -1

\* main, lines 245-250: the banner, then the required commands; sys.exit(1)
\* when one is missing
CheckRequired ==
    /\ pc = "main"
    /\ IF check_required_commands(REQUIRED_COMMANDS, path)
       THEN /\ printed' = printed \o Banner
            /\ pc' = "detect_gpus"
            /\ exit_code' = exit_code
       ELSE /\ printed' = printed \o Banner \o << Line("aborting", "", "", <<>>) >>
            /\ pc' = "exited"
            /\ exit_code' = 1
    /\ UNCHANGED <<path, answer, idx, gpus, loaded_modules, nvidia_info, intel_info,
                   any_gpu_processed, trace, last_run>>

\* where detect_gpus goes after the iteration on command i
AfterIteration(i, broke) ==
    IF broke \/ i = Len(GPU_DETECTION_COMMANDS) THEN "get_loaded_kernel_modules"
    ELSE "detect_gpus"

\* detect_gpus: an iteration on a command that is not installed (continue)
DetectSkip ==
    /\ pc = "detect_gpus"
    /\ ~is_command_available(GPU_DETECTION_COMMANDS[idx][1], path)
    /\ pc' = AfterIteration(idx, FALSE)
    /\ idx' = idx + 1
    /\ UNCHANGED <<path, answer, gpus, loaded_modules, nvidia_info, intel_info,
                   any_gpu_processed, printed, trace, last_run, exit_code>>

\* detect_gpus: an iteration that runs its command
DetectRun ==
    /\ pc = "detect_gpus"
    /\ is_command_available(GPU_DETECTION_COMMANDS[idx][1], path)
    /\ \E o \in DetectOutcomes :
          /\ gpus' = detect_update(gpus, o)
          /\ last_run' = Status(o)
          /\ pc' = AfterIteration(idx, detect_break(gpus, o))
    /\ trace' = Append(trace, Ran(GPU_DETECTION_COMMANDS[idx], "detect_gpus"))
    /\ idx' = idx + 1
    /\ UNCHANGED <<path, answer, loaded_modules, nvidia_info, intel_info,
                   any_gpu_processed, printed, exit_code>>

\* main, lines 254-256: get_loaded_kernel_modules() returns
GetLoadedKernelModules ==
    /\ pc = "get_loaded_kernel_modules"
    /\ \E r \in LoadedModuleResults :
          /\ ~r.result.raised
          /\ loaded_modules' = r.result.value
          /\ last_run' = r.status
    /\ trace' = Append(trace, Ran(LSMOD, "get_loaded_kernel_modules"))
    /\ any_gpu_processed' = FALSE
    /\ printed' = Append(printed, Blank)
    /\ pc' = "nvidia"
    /\ UNCHANGED <<path, answer, idx, gpus, nvidia_info, intel_info, exit_code>>

\* main, line 254: get_loaded_kernel_modules() raises IndexError, which
\* nothing catches: the interpreter prints the traceback and exits with 1
GetLoadedKernelModulesRaises ==
    /\ pc = "get_loaded_kernel_modules"
    /\ \E r \in LoadedModuleResults : r.result.raised /\ last_run' = r.status
    /\ trace' = Append(trace, Ran(LSMOD, "get_loaded_kernel_modules"))
    /\ pc' = "exited"
    /\ exit_code' = 1
    /\ UNCHANGED <<path, answer, idx, gpus, loaded_modules, nvidia_info, intel_info,
                   any_gpu_processed, printed>>

\* main, lines 259-263
NvidiaCheck ==
    /\ pc = "nvidia"
    /\ gpus.nvidia
    /\ LET c == check_nvidia_driver(loaded_modules, path, answer)
       IN  /\ nvidia_info' = <<c.info>>
           /\ trace' = trace \o [i \in DOMAIN c.runs |-> Ran(c.runs[i], "check_nvidia_driver")]
           /\ printed' = printed \o print_results(TRUE, c.info, "nvidia") \o <<Blank>>
           /\ last_run' = LastOf(c.runs, answer, last_run)
    /\ any_gpu_processed' = TRUE
    /\ pc' = "intel"
    /\ UNCHANGED <<path, answer, idx, gpus, loaded_modules, intel_info, exit_code>>

\* main, line 259: the condition is false
NvidiaSkip ==
    /\ pc = "nvidia"
    /\ ~gpus.nvidia
    /\ pc' = "intel"
    /\ UNCHANGED <<path, answer, idx, gpus, loaded_modules, nvidia_info, intel_info,
                   any_gpu_processed, printed, trace, last_run, exit_code>>

\* main, lines 265-269
IntelCheck ==
    /\ pc = "intel"
    /\ gpus.intel
    /\ LET c == check_intel_driver(loaded_modules, path, answer)
       IN  /\ intel_info' = <<c.info>>
           /\ trace' = trace \o [i \in DOMAIN c.runs |-> Ran(c.runs[i], "check_intel_driver")]
           /\ printed' = printed \o print_results(TRUE, c.info, "intel") \o <<Blank>>
           /\ last_run' = LastOf(c.runs, answer, last_run)
    /\ any_gpu_processed' = TRUE
    /\ pc' = "final"
    /\ UNCHANGED <<path, answer, idx, gpus, loaded_modules, nvidia_info, exit_code>>

\* main, line 265: the condition is false
IntelSkip ==
    /\ pc = "intel"
    /\ ~gpus.intel
    /\ pc' = "final"
    /\ UNCHANGED <<path, answer, idx, gpus, loaded_modules, nvidia_info, intel_info,
                   any_gpu_processed, printed, trace, last_run, exit_code>>

\* main, lines 271-273, and the return of main: exit status 0
Finish ==
    /\ pc = "final"
    /\ printed' = IF ~any_gpu_processed
                  THEN printed \o << Line("no supported gpu", "", "", <<>>),
                                     Line("missing utilities hint", "", "", <<>>) >>
                  ELSE printed
    /\ pc' = "exited"
    /\ exit_code' = 0
    /\ UNCHANGED <<path, answer, idx, gpus, loaded_modules, nvidia_info, intel_info,
                   any_gpu_processed, trace, last_run>>

Next ==
    \/ CheckRequired
    \/ DetectSkip
    \/ DetectRun
    \/ GetLoadedKernelModules
    \/ GetLoadedKernelModulesRaises
    \/ NvidiaCheck
    \/ NvidiaSkip
    \/ IntelCheck
    \/ IntelSkip
    \/ Finish

Spec == Init /\ [][Next]_vars

-----------------------------------------------------------------------------
(* Vocabulary of the properties *)

Vendors == {"nvidia", "intel"}
CheckOf(v) == IF v = "nvidia" THEN "check_nvidia_driver" ELSE "check_intel_driver"
InfoOf(v) == IF v = "nvidia" THEN nvidia_info ELSE intel_info
PatternsOf(v) == IF v = "nvidia" THEN NVIDIA_PACKAGE_PATTERNS ELSE INTEL_PACKAGE_PATTERNS
ModulesOf(v) ==
    IF v = "nvidia" THEN NVIDIA_PROPRIETARY_MODULES \cup NVIDIA_OPEN_MODULES
    ELSE INTEL_MODULES

RequiredPresent == REQUIRED_COMMANDS \subseteq path

\* the positions of trace at which function `by` executed command `cmd`
RunsOf(cmd, by) == {i \in DOMAIN trace : trace[i].cmd = cmd /\ trace[i].by = by}
RunsBy(by) == {i \in DOMAIN trace : trace[i].by = by}
TimesRun(cmd) == Cardinality({i \in DOMAIN trace : trace[i].cmd = cmd})

AllCommands ==
    {GPU_DETECTION_COMMANDS[i] : i \in DOMAIN GPU_DETECTION_COMMANDS}
      \cup {LSMOD, NVIDIA_SMI}
      \cup {PACKAGE_MANAGERS[pm] : pm \in DOMAIN PACKAGE_MANAGERS}

\* nvidia-smi is installed and exits with code 0 on this host
SmiExitsZero ==
    /\ "nvidia-smi" \in path
    /\ answer["nvidia-smi"].kind = "exit"
    /\ answer["nvidia-smi"].returncode = 0

\* package manager pm is installed and its listing matches vendor v's pattern
ListingMatches(pm, v) ==
    /\ PACKAGE_MANAGERS[pm][1] \in path
    /\ answer[PACKAGE_MANAGERS[pm][1]].kind = "exit"
    /\ answer[PACKAGE_MANAGERS[pm][1]].returncode = 0
    /\ re_search_ignorecase(PatternsOf(v)[pm], answer[PACKAGE_MANAGERS[pm][1]].stdout)

\* "Found via {manager}", one per manager whose listing matches, in the
\* order of PACKAGE_MANAGERS
FoundViaAll(v) ==
    LET hits == SelectSeq(PACKAGE_MANAGER_ORDER, LAMBDA pm : ListingMatches(pm, v))
    IN  [i \in DOMAIN hits |-> <<"Found via", hits[i]>>]

\* seq lists exactly the members of S, in Python's string order
IsSortedListOf(seq, S) ==
    /\ Len(seq) = Cardinality(S)
    /\ {seq[i] : i \in DOMAIN seq} = S
    /\ \A i \in DOMAIN seq : \A j \in DOMAIN seq :
          i < j => ModuleRank(seq[i]) < ModuleRank(seq[j])

HasLine(kind, v) ==
    \E i \in DOMAIN printed : printed[i].line = kind /\ printed[i].vendor = str_upper(v)

-----------------------------------------------------------------------------
(* Properties *)

\* C1: a run on a host where a required tool (lspci, lsmod) is missing ends
\* with exit code 1 and executes no command at all; a run on a host where
\* both required tools resolve never exits with code 1.
C1_ExitOneOnlyWhenRequiredMissing ==
    /\ ~RequiredPresent =>
          /\ trace = <<>>
          /\ pc \in {"main", "exited"}
          /\ pc = "exited" => exit_code = 1
    /\ RequiredPresent => exit_code # 1

\* The half of C1 about a missing required tool, on its own: exit code 1, no
\* command executed, no detection state touched.
MissingRequiredAborts ==
    ~RequiredPresent =>
        /\ trace = <<>>
        /\ pc \in {"main", "exited"}
        /\ pc = "exited" => exit_code = 1
        /\ gpus = [nvidia |-> FALSE, intel |-> FALSE]
        /\ nvidia_info = <<>> /\ intel_info = <<>>

\* C2: a driver record is installed only if a module of the vendor is in the
\* loaded-module set, or nvidia-smi ran and exited with 0 (NVIDIA only), or the
\* listing of an installed package manager matches the vendor's pattern.
C2_InstalledOnlyWithEvidence ==
    \A v \in Vendors :
        (InfoOf(v) # <<>> /\ InfoOf(v)[1].installed) =>
            \/ ModulesOf(v) \cap loaded_modules # {}
            \/ /\ v = "nvidia"
               /\ SmiExitsZero
               /\ RunsOf(NVIDIA_SMI, "check_nvidia_driver") # {}
            \/ \E pm \in DOMAIN PACKAGE_MANAGERS : ListingMatches(pm, v)

\* an NVIDIA record that is installed on the word of nvidia-smi alone, and an
\* Intel record that is not installed
C2_Witness ==
    /\ nvidia_info # <<>> /\ nvidia_info[1].installed
    /\ ModulesOf("nvidia") \cap loaded_modules = {}
    /\ \A pm \in DOMAIN PACKAGE_MANAGERS : ~ListingMatches(pm, "nvidia")
    /\ intel_info # <<>> /\ ~intel_info[1].installed

\* C3: when nvidia-smi is installed and exits with code 0, the NVIDIA record is
\* installed with the proprietary label, whatever modules are loaded and
\* whatever nvidia-smi printed.
C3_SmiSuccessForcesProprietary ==
    (nvidia_info # <<>> /\ SmiExitsZero) =>
        /\ nvidia_info[1].installed
        /\ nvidia_info[1].type = "proprietary NVIDIA"

\* C4 as stated: no NVIDIA module loaded and a matching listing give the
\* record installed, "proprietary (inactive)", one "Found via" per matching
\* manager.
C4_PackagesMeanInactive ==
    ( /\ nvidia_info # <<>>
      /\ ModulesOf("nvidia") \cap loaded_modules = {}
      /\ \E pm \in DOMAIN PACKAGE_MANAGERS : ListingMatches(pm, "nvidia") ) =>
        /\ nvidia_info[1].installed
        /\ nvidia_info[1].type = "proprietary NVIDIA (inactive)"
        /\ nvidia_info[1].packages = FoundViaAll("nvidia")

\* C4 amended: the same, provided nvidia-smi is not installed or does not exit
\* with code 0.
C4_PackagesMeanInactiveUnlessSmi ==
    ( /\ nvidia_info # <<>>
      /\ ModulesOf("nvidia") \cap loaded_modules = {}
      /\ ~SmiExitsZero
      /\ \E pm \in DOMAIN PACKAGE_MANAGERS : ListingMatches(pm, "nvidia") ) =>
        /\ nvidia_info[1].installed
        /\ nvidia_info[1].type = "proprietary NVIDIA (inactive)"
        /\ nvidia_info[1].packages = FoundViaAll("nvidia")

\* an inactive record that two package managers vouch for
C4_Witness ==
    /\ nvidia_info # <<>>
    /\ ~SmiExitsZero
    /\ nvidia_info[1].type = "proprietary NVIDIA (inactive)"
    /\ Len(nvidia_info[1].packages) = 2

\* C5: at the end of a run, a vendor that was not detected has no driver
\* record and no command run for its check, and its "hardware not found"
\* line is printed; no such line is printed for a detected vendor.
C5_NotFoundLineForUndetectedVendor ==
    (pc = "exited" /\ exit_code = 0) =>
        \A v \in Vendors :
            /\ ~gpus[v] => /\ InfoOf(v) = <<>>
                           /\ RunsBy(CheckOf(v)) = {}
                           /\ HasLine("hardware not found", v)
            /\ gpus[v] => ~HasLine("hardware not found", v)

\* The half of C5 about the checks, on its own: no record and no command for
\* a vendor that was not detected.
UndetectedVendorIsNotChecked ==
    \A v \in Vendors :
        (pc \in {"final", "exited"} /\ ~gpus[v]) =>
            InfoOf(v) = <<>> /\ RunsBy(CheckOf(v)) = {}

\* C6 as stated: no command is executed more than once in a run.
C6_NoCommandTwice ==
    \A c \in AllCommands : TimesRun(c) <= 1

\* C6 amended: lspci, lshw, glxinfo, lsmod and nvidia-smi are executed at most
\* once in a run; a package manager's listing command is executed at most
\* once by each vendor's check and by nothing else, so at most twice.
C6_OncePerCheck ==
    /\ \A c \in AllCommands \ {PACKAGE_MANAGERS[pm] : pm \in DOMAIN PACKAGE_MANAGERS} :
          TimesRun(c) <= 1
    /\ \A pm \in DOMAIN PACKAGE_MANAGERS :
          /\ \A v \in Vendors : Cardinality(RunsOf(PACKAGE_MANAGERS[pm], CheckOf(v))) <= 1
          /\ TimesRun(PACKAGE_MANAGERS[pm])
                = Cardinality(RunsOf(PACKAGE_MANAGERS[pm], "check_nvidia_driver"))
                  + Cardinality(RunsOf(PACKAGE_MANAGERS[pm], "check_intel_driver"))

\* a listing command that both checks have executed
C6_Witness ==
    \E pm \in DOMAIN PACKAGE_MANAGERS : TimesRun(PACKAGE_MANAGERS[pm]) = 2

\* C7: with a proprietary module loaded, the NVIDIA record is installed, has
\* the proprietary label and lists exactly the loaded proprietary modules in
\* sorted order, on every host.
C7_ProprietaryModulesListed ==
    (nvidia_info # <<>> /\ NVIDIA_PROPRIETARY_MODULES \cap loaded_modules # {}) =>
        /\ nvidia_info[1].installed
        /\ nvidia_info[1].type = "proprietary NVIDIA"
        /\ IsSortedListOf(nvidia_info[1].modules_loaded,
                          NVIDIA_PROPRIETARY_MODULES \cap loaded_modules)

\* the record of the spec's scenario: nvidia and nvidia_drm loaded
C7_Witness ==
    /\ nvidia_info # <<>>
    /\ loaded_modules = {"nvidia", "nvidia_drm"}
    /\ nvidia_info[1].modules_loaded = <<"nvidia", "nvidia_drm">>

\* C8: a run on a host with both required tools ends with exit code 0 after
\* the report, whatever the other commands did; a failed lsmod leaves the
\* module set empty.
C8_NonFatalRunsExitZero ==
    /\ (RequiredPresent /\ pc = "exited") =>
          /\ exit_code = 0
          /\ any_gpu_processed \/ HasLine("no supported gpu", "")
    /\ (pc = "nvidia" /\ last_run # "exit 0") => loaded_modules = {}

\* position of a command in GPU_DETECTION_COMMANDS
DetectionIndex(cmd) ==
    CHOOSE i \in DOMAIN GPU_DETECTION_COMMANDS : GPU_DETECTION_COMMANDS[i] = cmd

\* C9: in every step, the GPU-enumeration commands executed so far were
\* executed in the order lspci, lshw, glxinfo; none is executed once both
\* flags are true; a flag that is true stays true; and a step that skips an
\* unavailable command, or runs a command that does not exit with 0, leaves
\* both flags as they were.
C9_DetectionOrderAndShortCircuit ==
    [][ /\ \A i \in RunsBy("detect_gpus")' : \A j \in RunsBy("detect_gpus")' :
              i < j => DetectionIndex(trace'[i].cmd) < DetectionIndex(trace'[j].cmd)
        /\ (gpus.nvidia /\ gpus.intel) => RunsBy("detect_gpus")' = RunsBy("detect_gpus")
        /\ gpus.nvidia => gpus'.nvidia
        /\ gpus.intel => gpus'.intel
        /\ (pc = "detect_gpus" /\ trace' = trace) => gpus' = gpus
        /\ (pc = "detect_gpus" /\ trace' # trace /\ last_run' # "exit 0") => gpus' = gpus
      ]_vars

\* lspci named both vendors, so lshw and glxinfo, though installed, never ran
C9_Witness ==
    /\ pc = "exited"
    /\ gpus.nvidia /\ gpus.intel
    /\ {"lshw", "glxinfo"} \subseteq path
    /\ RunsBy("detect_gpus") = {1}

\* C10: the Intel record is installed exactly when i915 is loaded or an
\* installed package manager's listing matches the Intel pattern; every
\* installed package manager is asked even when i915 is loaded, and the record
\* keeps modules_loaded = [i915] next to the package entries.
C10_IntelModuleAndPackages ==
    intel_info # <<>> =>
        /\ intel_info[1].installed <=>
              ( \/ "i915" \in loaded_modules
                \/ \E pm \in DOMAIN PACKAGE_MANAGERS : ListingMatches(pm, "intel") )
        /\ intel_info[1].packages = FoundViaAll("intel")
        /\ \A pm \in DOMAIN PACKAGE_MANAGERS :
              PACKAGE_MANAGERS[pm][1] \in path =>
                  RunsOf(PACKAGE_MANAGERS[pm], "check_intel_driver") # {}
        /\ "i915" \in loaded_modules => intel_info[1].modules_loaded = <<"i915">>

\* i915 loaded and a matching package: both kinds of evidence in one record
C10_Witness ==
    /\ intel_info # <<>>
    /\ intel_info[1].modules_loaded = <<"i915">>
    /\ intel_info[1].packages # <<>>

====
